---- MODULE Spec2Model ----
(***************************************************************************)
(* Model of Images/cnn_mnist.ipynb: the model function cnn_model_fn and    *)
(* the driver main.                                                        *)
(*                                                                         *)
(* cnn_model_fn is interpreted statement by statement: a statement is      *)
(* named by the notebook line it starts on, Step executes one statement    *)
(* and Run executes the body until it returns or raises.  Tensors are      *)
(* records carrying the operation that built them and their shape; the     *)
(* numbers the wrapped library computes for the logits of a batch are the  *)
(* variable kernel.                                                        *)
(***************************************************************************)
EXTENDS Integers, Sequences, FiniteSets, TLC

VARIABLES
    pc,           \* position of main, or of the caller of cnn_model_fn
    events,       \* the steps main has completed, in order
    global_step,  \* the training step counter the update step increments
    logged,       \* how often the logging hook has reported the softmax tensor
    stdout,       \* what main has printed
    mnist,        \* the loaded dataset, None before it is loaded
    mode,         \* argument mode of the latest call of cnn_model_fn
    features,     \* argument features of that call
    labels,       \* argument labels of that call
    kernel,       \* the logit values the library computes for that call's batch
    ret           \* the frame of that call: statements executed, locals, outcome

vars == <<pc, events, global_step, logged, stdout, mnist,
          mode, features, labels, kernel, ret>>

(* ----------------------------- bounds --------------------------------- *)

\* largest batch handed to cnn_model_fn by the call harness
MaxBatch == 2

\* largest logit value drawn for an example
MaxLogit == 1

\* largest number of examples in the test part of a dataset
MaxExamples == 1

(* ------------------------ program constants --------------------------- *)

NumClasses == 10

\* a flat example: the 28 x 28 x 1 values the input layer reshapes
PixelsPerImage == 28 * 28 * 1

TrainBatchSize == 100

TrainSteps == 20000

LogEveryNIter == 50

\* numpy_input_fn's batch size when the call names none (the eval input)
DefaultBatchSize == 128

TRAIN == "train"

EVAL == "eval"

PREDICT == "infer"

Modes == {TRAIN, EVAL, PREDICT}

None == [op |-> "None"]

\* a local name of cnn_model_fn that no assignment has bound yet
Unbound == [op |-> "Unbound"]

(* ------------------------- library operations ------------------------- *)

RECURSIVE Prod(_)
Prod(s) == IF s = <<>> THEN 1 ELSE Head(s) * Prod(Tail(s))

\* the product of the dimensions of a requested shape that are given (not -1)
KnownDims(shape) ==
    Prod([i \in 1..Len(shape) |-> IF shape[i] = -1 THEN 1 ELSE shape[i]])

\* tf.reshape: the dimension given as -1 is inferred from the element count
reshape(tensor, shape) ==
    [op |-> "reshape",
     shape |-> [i \in 1..Len(shape) |->
                  IF shape[i] = -1 THEN Prod(tensor.shape) \div KnownDims(shape)
                  ELSE shape[i]],
     inputs |-> tensor]

\* output length of a "same"-padded window operation
SameLength(n, stride) == (n + stride - 1) \div stride

\* output length of a "valid"-padded window operation
ValidLength(n, window, stride) == (n - window) \div stride + 1

\* conv2d that pads nothing whatever padding is asked for
conv2d_valid(inputs, filters, kernel_size, padding) ==
    [op |-> "conv2d",
     shape |-> <<inputs.shape[1],
                 ValidLength(inputs.shape[2], kernel_size[1], 1),
                 ValidLength(inputs.shape[3], kernel_size[2], 1),
                 filters>>,
     inputs |-> inputs]

\* tf.layers.conv2d with stride 1 (the default) on [batch, h, w, channels]
conv2d(inputs, filters, kernel_size, padding) ==
    [op |-> "conv2d",
     shape |-> <<inputs.shape[1],
                 IF padding = "same" THEN SameLength(inputs.shape[2], 1)
                 ELSE ValidLength(inputs.shape[2], kernel_size[1], 1),
                 IF padding = "same" THEN SameLength(inputs.shape[3], 1)
                 ELSE ValidLength(inputs.shape[3], kernel_size[2], 1),
                 filters>>,
     inputs |-> inputs]

\* tf.layers.max_pooling2d with padding "valid" (the default)
max_pooling2d(inputs, pool_size, strides) ==
    [op |-> "max_pooling2d",
     shape |-> <<inputs.shape[1],
                 ValidLength(inputs.shape[2], pool_size[1], strides),
                 ValidLength(inputs.shape[3], pool_size[2], strides),
                 inputs.shape[4]>>,
     inputs |-> inputs]

\* tf.layers.dense on [batch, n]
dense_layer(inputs, units) ==
    [op |-> "dense", shape |-> <<inputs.shape[1], units>>, inputs |-> inputs]

\* dropout that drops whatever the training flag
dropout_always(inputs, rate, training) ==
    [op |-> "dropout", shape |-> inputs.shape, inputs |-> inputs, rate |-> rate]

\* tf.layers.dropout: drops at the rate when training, the identity otherwise
dropout_layer(inputs, rate, training) ==
    IF training
    THEN [op |-> "dropout", shape |-> inputs.shape, inputs |-> inputs, rate |-> rate]
    ELSE inputs

\* the numbers the library computes for the logits tensor of the current batch
\* under its current weights: one row of class scores per example
Value(tensor) == kernel

RECURSIVE ArgmaxFrom(_, _, _, _)
\* scan of row[i..last]: best is the first index holding the largest value so far
ArgmaxFrom(row, i, last, best) ==
    IF i > last THEN best
    ELSE ArgmaxFrom(row, i + 1, last, IF row[i] > row[best] THEN i ELSE best)

\* the scan stopping one class short of the last
ArgmaxRowShort(row, n) == ArgmaxFrom(row, 1, n - 2, 0)

\* index of the largest entry of one row of n scores, the first one on a tie
ArgmaxRow(row, n) == ArgmaxFrom(row, 1, n - 1, 0)

\* tf.argmax along axis 1 of a [batch, n] tensor
argmax(input) ==
    [op |-> "argmax", shape |-> <<input.shape[1]>>, inputs |-> input,
     value |-> [i \in 1..Len(Value(input)) |->
                  ArgmaxRow(Value(input)[i], input.shape[2])]]

\* tf.nn.softmax
softmax(logits, name) ==
    [op |-> "softmax", shape |-> logits.shape, inputs |-> logits, name |-> name]

\* tf.cast: the same values under another element type (class ids are integers)
cast(tensor, dtype) == [tensor EXCEPT !.dtype = dtype]

\* one_hot whose columns count from 1
one_hot_from_one(indices, depth) ==
    [op |-> "one_hot", shape |-> <<indices.shape[1], depth>>,
     value |-> [i \in 1..Len(indices.value) |->
                  [c \in 0..(depth - 1) |->
                     IF c + 1 = indices.value[i] THEN 1 ELSE 0]]]

\* tf.one_hot of a batch of class ids: per example a row of depth entries, 1 at
\* the example's class id and 0 elsewhere
one_hot(indices, depth) ==
    [op |-> "one_hot", shape |-> <<indices.shape[1], depth>>,
     value |-> [i \in 1..Len(indices.value) |->
                  [c \in 0..(depth - 1) |-> IF c = indices.value[i] THEN 1 ELSE 0]]]

\* tf.losses.softmax_cross_entropy: a scalar
softmax_cross_entropy(onehot_labels, logits) ==
    [op |-> "softmax_cross_entropy", shape |-> <<>>,
     onehot_labels |-> onehot_labels, logits |-> logits]

\* tf.train.GradientDescentOptimizer; the rate is a fraction <<num, den>>
GradientDescentOptimizer(learning_rate) ==
    [op |-> "GradientDescentOptimizer", learning_rate |-> learning_rate]

\* optimizer.minimize: the update step
minimize(optimizer, loss) ==
    [op |-> "minimize", optimizer |-> optimizer, loss |-> loss,
     global_step |-> "global_step"]

\* tf.metrics.accuracy
accuracy(labs, predictions) ==
    [op |-> "accuracy", labels |-> labs, predictions |-> predictions]

EstimatorSpec(m, predictions, loss, train_op, eval_metric_ops) ==
    [mode |-> m, predictions |-> predictions, loss |-> loss,
     train_op |-> train_op, eval_metric_ops |-> eval_metric_ops]

(* ---------------------------- cnn_model_fn ----------------------------- *)

LocalNames == {"input_layer", "conv1", "pool1", "conv2", "pool2", "pool2_flat",
               "dense", "dropout", "logits", "predictions", "onehot_labels",
               "loss", "optimizer", "train_op", "eval_metric_ops"}

\* the frame of a call on entry: at the first statement, no local bound
Entry ==
    [line |-> 61, executed |-> <<>>, raised |-> "none", result |-> None,
     locals |-> [n \in LocalNames |-> Unbound]]

\* the local names a statement reads
Reads(line) ==
    CASE line = 65 -> {"input_layer"}
      [] line = 70 -> {"conv1"}
      [] line = 74 -> {"pool1"}
      [] line = 76 -> {"conv2"}
      [] line = 81 -> {"pool2"}
      [] line = 82 -> {"pool2_flat"}
      [] line = 83 -> {"dense"}
      [] line = 87 -> {"dropout"}
      [] line = 91 -> {"logits"}
      [] line = 99 -> {"predictions"}
      [] line = 105 -> {"onehot_labels", "logits"}
      [] line = 112 -> {"optimizer", "loss"}
      [] line = 113 -> {"loss", "train_op"}
      [] line = 116 -> {"predictions"}
      [] line = 118 -> {"loss", "eval_metric_ops"}
      [] OTHER -> {}

\* name = value, then on to the statement at line next
Assign(env, name, value, next) ==
    [env EXCEPT !.locals[name] = value, !.line = next]

\* return value: the call ends
Return(env, value) == [env EXCEPT !.result = value, !.line = 0]

\* the test of line 98 never taking its return
AfterIfPredictFallThrough(m) == 103

\* the statement that follows the test of line 98
AfterIfPredict(m) == IF m = PREDICT THEN 99 ELSE 103

\* the return of line 113 nested in the body of the if of line 110
AfterIfTrainReturnInside(m) == IF m = TRAIN THEN 111 ELSE 116

\* the statement that follows the test of line 110: its body (lines 111-112)
\* in train mode, else the statement after the body, the return of line 113
AfterIfTrain(m) == IF m = TRAIN THEN 111 ELSE 113

\* one statement of the body of cnn_model_fn(f, l, m)
Step(env, f, l, m) ==
    LET line == env.line
        v == env.locals
        e == [env EXCEPT !.executed = Append(@, line)]
    IN
    IF \E n \in Reads(line) : v[n] = Unbound
    THEN [e EXCEPT !.raised = "UnboundLocalError", !.line = 0]
    ELSE
    CASE line = 61 -> Assign(e, "input_layer", reshape(f.x, <<-1, 28, 28, 1>>), 65)
      [] line = 65 -> Assign(e, "conv1",
                             conv2d(v.input_layer, 32, <<5, 5>>, "same"), 70)
      [] line = 70 -> Assign(e, "pool1", max_pooling2d(v.conv1, <<2, 2>>, 2), 74)
      [] line = 74 -> Assign(e, "conv2", conv2d(v.pool1, 64, <<5, 5>>, "same"), 76)
      [] line = 76 -> Assign(e, "pool2", max_pooling2d(v.conv2, <<2, 2>>, 2), 81)
      [] line = 81 -> Assign(e, "pool2_flat", reshape(v.pool2, <<-1, 7 * 7 * 64>>), 82)
      [] line = 82 -> Assign(e, "dense", dense_layer(v.pool2_flat, 1024), 83)
      [] line = 83 -> Assign(e, "dropout",
                             dropout_layer(v.dense, <<4, 10>>, m = TRAIN), 87)
      [] line = 87 -> Assign(e, "logits", dense_layer(v.dropout, 10), 91)
      [] line = 91 -> Assign(e, "predictions",
                             [classes |-> argmax(v.logits),
                              probabilities |-> softmax(v.logits, "softmax_tensor")],
                             98)
      [] line = 98 -> [e EXCEPT !.line = AfterIfPredict(m)]
      [] line = 99 -> Return(e, EstimatorSpec(m, v.predictions, None, None, None))
      [] line = 103 -> IF l = None
                       THEN [e EXCEPT !.raised = "ValueError", !.line = 0]
                       ELSE Assign(e, "onehot_labels",
                                   one_hot(cast(l, "int32"), 10), 105)
      [] line = 105 -> Assign(e, "loss",
                              softmax_cross_entropy(v.onehot_labels, v.logits), 110)
      [] line = 110 -> [e EXCEPT !.line = AfterIfTrain(m)]
      [] line = 111 -> Assign(e, "optimizer",
                              GradientDescentOptimizer(<<1, 1000>>), 112)
      [] line = 112 -> Assign(e, "train_op", minimize(v.optimizer, v.loss), 113)
      [] line = 113 -> Return(e, EstimatorSpec(m, None, v.loss, v.train_op, None))
      [] line = 116 -> Assign(e, "eval_metric_ops",
                              [accuracy |-> accuracy(l, v.predictions.classes)], 118)
      [] line = 118 -> Return(e, EstimatorSpec(m, None, v.loss, None,
                                               v.eval_metric_ops))

RECURSIVE Run(_, _, _, _)
\* the statements from env on, until the call returns or raises (line 0)
Run(env, f, l, m) == IF env.line = 0 THEN env ELSE Run(Step(env, f, l, m), f, l, m)

\* a call of the model function: the frame it ends in
cnn_model_fn(f, l, m) == Run(Entry, f, l, m)

(* --------------------------- inputs of a call -------------------------- *)

\* features: a dict holding B flat images under "x"
Features(B) == [x |-> [op |-> "numpy", shape |-> <<B, PixelsPerImage>>]]

\* labels: a batch of class ids
Labels(ids) ==
    [op |-> "numpy", dtype |-> "int32", shape |-> <<Len(ids)>>, value |-> ids]

\* rows of scores that are 0 except at the given classes
Rows(classes, vals) ==
    {[c \in 0..(NumClasses - 1) |-> IF c \in classes THEN g[c] ELSE 0] :
        g \in [classes -> vals]}

\* the state before any call
NoCall ==
    /\ mode = PREDICT
    /\ features = None
    /\ labels = None
    /\ kernel = <<>>
    /\ ret = Entry

\* the driver at rest
NoDriver ==
    /\ events = <<>>
    /\ global_step = 0
    /\ logged = 0
    /\ stdout = <<>>
    /\ mnist = None

\* a harness calls cnn_model_fn on the arguments held in the state
Call ==
    /\ pc = "call"
    /\ ret' = cnn_model_fn(features, labels, mode)
    /\ pc' = "returned"
    /\ UNCHANGED <<events, global_step, logged, stdout, mnist,
                   mode, features, labels, kernel>>

\* calls with every mode and every batch of labels; the scores are 0 or have
\* a single peak
FnInit ==
    /\ pc = "call"
    /\ NoDriver
    /\ ret = Entry
    /\ mode \in Modes
    /\ \E B \in 1..MaxBatch :
         /\ features = Features(B)
         /\ labels \in {Labels(ids) : ids \in [1..B -> 0..(NumClasses - 1)]}
                       \cup (IF mode = PREDICT THEN {None} ELSE {})
         /\ kernel \in [1..B -> Rows({3}, {0, 1})]

FnNext == Call

FnSpec == FnInit /\ [][FnNext]_vars

\* calls with every batch of scores drawn from -1..MaxLogit at the first and
\* the last class; the labels are those of class 0 (none in predict mode)
ArgmaxInit ==
    /\ pc = "call"
    /\ NoDriver
    /\ ret = Entry
    /\ mode \in Modes
    /\ \E B \in 1..MaxBatch :
         /\ features = Features(B)
         /\ labels = IF mode = PREDICT THEN None ELSE Labels([i \in 1..B |-> 0])
         /\ kernel \in [1..B -> Rows({0, NumClasses - 1}, (-1)..MaxLogit)]

ArgmaxNext == Call

ArgmaxSpec == ArgmaxInit /\ [][ArgmaxNext]_vars

(* ------------------------------- main --------------------------------- *)

ClassIds == 0..(NumClasses - 1)

\* the batches of 1..n class ids
LabelSeqs(n) == UNION {[1..k -> ClassIds] : k \in 1..n}

\* what load_dataset("mnist") can yield: the labels of the train and of the
\* test examples (the images are one row of pixels per label).
\* the train part holds one example, which the repeating train input turns
\* into full batches
Datasets ==
    {[op |-> "mnist", train_labels |-> tr, test_labels |-> te] :
        tr \in LabelSeqs(1), te \in LabelSeqs(MaxExamples)}

Min(a, b) == IF a < b THEN a ELSE b

\* numpy_input_fn(y, batch_size, num_epochs): the labels of the first batch;
\* with num_epochs = None the examples repeat and the batch is full, with one
\* epoch it ends with the examples
Batch(y, batch_size, repeat) ==
    IF repeat THEN [i \in 1..batch_size |-> y[((i - 1) % Len(y)) + 1]]
    ELSE SubSeq(y, 1, Min(batch_size, Len(y)))

\* the scores of a batch of n examples whose rows are all the same
UniformScores(n) == {[i \in 1..n |-> row] : row \in Rows({3}, {0, 1})}

\* estimator.evaluate's result for the EstimatorSpec of an evaluate-mode call
EvalResults(spec, step) ==
    [loss |-> spec.loss, metrics |-> spec.eval_metric_ops, global_step |-> step]

\* lines 144-148: load the train and test arrays, or the loader raises
LoadData ==
    /\ pc = "main"
    /\ \E loaded \in BOOLEAN :
         IF loaded
         THEN /\ mnist' \in Datasets
              /\ events' = Append(events, "load")
              /\ pc' = "loaded"
         ELSE /\ pc' = "failed"
              /\ UNCHANGED <<mnist, events>>
    /\ UNCHANGED <<global_step, logged, stdout, mode, features, labels, kernel, ret>>

\* lines 151-156: the estimator bound to cnn_model_fn, and the logging hook
CreateEstimator ==
    /\ pc = "loaded"
    /\ events' = Append(events, "construct")
    /\ pc' = "constructed"
    /\ UNCHANGED <<global_step, logged, stdout, mnist, mode, features, labels,
                   kernel, ret>>

\* lines 159-161: estimator.train calls cnn_model_fn in train mode on batches
\* of TrainBatchSize examples and runs the returned update step TrainSteps
\* times, the hook logging every LogEveryNIter iterations; a raise of the
\* model function or of the library ends main
Train ==
    /\ pc = "constructed"
    /\ mode' = TRAIN
    /\ features' = Features(TrainBatchSize)
    /\ labels' = Labels(Batch(mnist.train_labels, TrainBatchSize, TRUE))
    /\ kernel' \in UniformScores(TrainBatchSize)
    /\ ret' = cnn_model_fn(features', labels', mode')
    /\ \E completes \in BOOLEAN :
         IF ret'.raised = "none" /\ ret'.result.train_op # None /\ completes
         THEN /\ global_step' = global_step + TrainSteps
              /\ logged' = logged + (TrainSteps + LogEveryNIter - 1) \div LogEveryNIter
              /\ events' = Append(events, "train")
              /\ pc' = "trained"
         ELSE /\ pc' = "failed"
              /\ UNCHANGED <<global_step, logged, events>>
    /\ UNCHANGED <<stdout, mnist>>

\* lines 164-167: estimator.evaluate calls cnn_model_fn in evaluate mode on the
\* test batches; its result is printed, unless the call raised
EvaluateAndPrint ==
    /\ pc = "trained"
    /\ mode' = EVAL
    /\ features' = Features(Min(DefaultBatchSize, Len(mnist.test_labels)))
    /\ labels' = Labels(Batch(mnist.test_labels, DefaultBatchSize, FALSE))
    /\ kernel' \in UniformScores(Min(DefaultBatchSize, Len(mnist.test_labels)))
    /\ ret' = cnn_model_fn(features', labels', mode')
    /\ IF ret'.raised = "none"
       THEN /\ events' = events \o <<"evaluate", "print">>
            /\ stdout' = Append(stdout, EvalResults(ret'.result, global_step))
            /\ pc' = "done"
       ELSE /\ events' = Append(events, "evaluate")
            /\ pc' = "failed"
            /\ UNCHANGED stdout
    /\ UNCHANGED <<global_step, logged, mnist>>

Init ==
    /\ pc = "main"
    /\ NoDriver
    /\ NoCall

Next == LoadData \/ CreateEstimator \/ Train \/ EvaluateAndPrint

Spec == Init /\ [][Next]_vars

\* the calls of the harness and the runs of main together
AllInit == Init \/ FnInit

AllNext == Next \/ FnNext

AllSpec == AllInit /\ [][AllNext]_vars

(* ------------------------------ properties ---------------------------- *)

\* the latest call of cnn_model_fn has ended (returned or raised)
CallDone == ret.line = 0

Has(seq, x) == \E i \in 1..Len(seq) : seq[i] = x

Count(seq, x) == Cardinality({i \in 1..Len(seq) : seq[i] = x})

IsPrefix(s, t) == Len(s) <= Len(t) /\ s = SubSeq(t, 1, Len(s))

\* the events of a complete run of main
MainOrder == <<"load", "construct", "train", "evaluate", "print">>

\* the batch size of the latest call
BatchSize == features.x.shape[1]

\* C1: a call with mode = evaluate returns a result that carries the loss and
\* an accuracy metric comparing the predicted classes to the labels.
C1_EvaluateReturnsLossAndAccuracy ==
    (CallDone /\ mode = EVAL) =>
        /\ ret.raised = "none"
        /\ ret.result # None
        /\ ret.result.loss # None
        /\ ret.result.loss = ret.locals.loss
        /\ ret.result.eval_metric_ops # None
        /\ ret.result.eval_metric_ops.accuracy
               = accuracy(labels, ret.locals.predictions.classes)

\* C2: a run of main in which the dataset loads and training completes goes
\* through load, construct, train, evaluate, print in this order (so evaluation
\* never precedes the end of training) and does not end before it has printed
\* the metrics.
C2_MainRunsInOrderAndPrints ==
    /\ IsPrefix(events, MainOrder)
    /\ (pc \in {"done", "failed"} /\ Has(events, "train")) =>
           (events = MainOrder /\ stdout # <<>>)

\* C3: a call with mode = predict returns a result holding only the
\* predictions ("classes" and "probabilities"), without loss or training op,
\* and executes none of the one-hot, loss and optimizer statements.
C3_PredictReturnsOnlyPredictions ==
    (CallDone /\ mode = PREDICT) =>
        /\ ret.raised = "none"
        /\ ret.result # None
        /\ ret.result.predictions = ret.locals.predictions
        /\ DOMAIN ret.result.predictions = {"classes", "probabilities"}
        /\ ret.result.loss = None
        /\ ret.result.train_op = None
        /\ ret.result.eval_metric_ops = None
        /\ \A line \in {103, 105, 111, 112} : ~Has(ret.executed, line)
        /\ \A n \in {"onehot_labels", "loss", "optimizer", "train_op"} :
              ret.locals[n] = Unbound

C3_Witness ==
    /\ pc = "returned" /\ mode = PREDICT /\ BatchSize = 2
    /\ Has(ret.executed, 99)
    /\ labels # None

\* C4: a call with mode = train computes the cross-entropy loss of the labels
\* one-hot encoded at depth 10 against the logits, creates exactly one
\* gradient-descent update step of learning rate 0.001 minimizing that loss,
\* and returns a result holding that loss and that update step.
C4_TrainReturnsLossAndUpdateStep ==
    (CallDone /\ mode = TRAIN) =>
        LET v == ret.locals
            hot == v.onehot_labels.value
        IN /\ ret.raised = "none"
           /\ ret.result # None
           /\ Len(hot) = Len(labels.value)
           /\ \A i \in 1..Len(hot) :
                 /\ DOMAIN hot[i] = 0..9
                 /\ hot[i][labels.value[i]] = 1
                 /\ \A c \in (0..9) \ {labels.value[i]} : hot[i][c] = 0
           /\ v.loss.op = "softmax_cross_entropy"
           /\ v.loss.onehot_labels = v.onehot_labels
           /\ v.loss.logits = v.logits
           /\ v.train_op.op = "minimize"
           /\ v.train_op.loss = v.loss
           /\ v.train_op.optimizer.op = "GradientDescentOptimizer"
           /\ v.train_op.optimizer.learning_rate = <<1, 1000>>
           /\ Count(ret.executed, 111) = 1
           /\ Count(ret.executed, 112) = 1
           /\ ret.result.loss = v.loss
           /\ ret.result.train_op = v.train_op

C4_Witness ==
    /\ pc = "returned" /\ mode = TRAIN /\ BatchSize = 2
    /\ labels.value = <<9, 0>>
    /\ ret.result.train_op.op = "minimize"

C6_ShapesKeepTheBatch ==
    CallDone =>
        LET v == ret.locals
            B == BatchSize
        IN /\ B >= 1
           /\ features.x.shape = <<B, 784>>
           /\ v.input_layer.shape = <<B, 28, 28, 1>>
           /\ v.conv1.shape = <<B, 28, 28, 32>>
           /\ v.pool1.shape = <<B, 14, 14, 32>>
           /\ v.conv2.shape = <<B, 14, 14, 64>>
           /\ v.pool2.shape = <<B, 7, 7, 64>>
           /\ v.pool2_flat.shape = <<B, 3136>>
           /\ v.dense.shape = <<B, 1024>>
           /\ v.logits.shape = <<B, 10>>

C6_Witness ==
    /\ pc = "returned" /\ BatchSize = MaxBatch
    /\ ret.locals.logits.shape = <<MaxBatch, 10>>

\* C7: for every example of a batch the predicted class is an integer in 0..9
\* and the index of a largest entry among that example's 10 logits.
C7_ClassesAreArgmax ==
    CallDone =>
        LET classes == ret.locals.predictions.classes.value
        IN /\ Len(classes) = BatchSize
           /\ Len(kernel) = BatchSize
           /\ \A i \in 1..BatchSize :
                 /\ classes[i] \in 0..9
                 /\ \A c \in 0..9 : kernel[i][classes[i]] >= kernel[i][c]

C7_Witness ==
    /\ pc = "returned" /\ BatchSize = 2
    /\ ret.locals.predictions.classes.value = <<9, 1>>

\* C8: the return of line 113 is executed only on calls with mode = train; a
\* call with mode = evaluate never executes it.
C8_ReturnOnlyInTrainMode ==
    (CallDone /\ Has(ret.executed, 113)) => mode = TRAIN

C10_DropoutOnlyInTrainMode ==
    CallDone =>
        LET v == ret.locals
        IN /\ v.logits.inputs = v.dropout
           /\ mode = TRAIN =>
                 /\ v.dropout.op = "dropout"
                 /\ v.dropout.rate = <<4, 10>>
                 /\ v.dropout.inputs = v.dense
           /\ mode # TRAIN =>
                 /\ v.dropout = v.dense
                 /\ v.logits.inputs = v.dense
                 /\ v.logits.inputs.op = "dense"

C10_Witness ==
    /\ pc = "returned" /\ mode = EVAL
    /\ ret.locals.dropout.op = "dense"
    /\ ret.locals.logits.inputs.shape = <<BatchSize, 1024>>

====
